---------------------------- MODULE Spec2Model ----------------------------
(***************************************************************************)
(* A model of embedding_adapters.py: the URL normaliser, the Azure and     *)
(* Ollama adapters and the adapter factory.                                *)
(*                                                                         *)
(* A Python str is modelled as a sequence of one-character strings, so    *)
(* that strip, rstrip, lower, `in`, index, slicing and the two regular     *)
(* expressions are computed character by character as Python does.        *)
(***************************************************************************)
EXTENDS Naturals, Sequences, FiniteSets

VARIABLES
    \* ensure_openai_base_url_has_v1 applied to an input, and to its result
    npc, url_in, url_out, url_again,
    \* create_embedding_adapter: arguments, outcome, library clients built
    fpc, fargs, fresult, fclients,
    \* Ollama adapters: instances, the running call, the network, the log
    adapters, ctor_args, ctor_fields, pc, cur, net, result, errlog

nvars == <<npc, url_in, url_out, url_again>>
fvars == <<fpc, fargs, fresult, fclients>>
ovars == <<adapters, ctor_args, ctor_fields, pc, cur, net, result, errlog>>
vars == <<nvars, fvars, ovars>>

---------------------------------------------------------------------------
(* Python str operations *)

Whitespace == {" ", "\t", "\n"}

Digits == {"0", "1", "2", "3", "4", "5", "6", "7", "8", "9"}

\* s.rstrip(chars): drop the longest suffix made of characters of C
RStrip(s, C) ==
    LET keep == {k \in 0..Len(s) :
                    /\ k = 0 \/ s[k] \notin C
                    /\ \A j \in (k+1)..Len(s) : s[j] \in C}
    IN SubSeq(s, 1, CHOOSE k \in keep : TRUE)

\* s.lstrip(chars): drop the longest prefix made of characters of C
LStrip(s, C) ==
    LET from == {k \in 1..(Len(s)+1) :
                    /\ k = Len(s) + 1 \/ s[k] \notin C
                    /\ \A j \in 1..(k-1) : s[j] \in C}
    IN SubSeq(s, CHOOSE k \in from : TRUE, Len(s))

\* s.strip()
Strip(s) == RStrip(LStrip(s, Whitespace), Whitespace)

\* the start positions of sub in s
Occurrences(s, sub) ==
    {i \in 1..(Len(s) + 1) :
        /\ i + Len(sub) - 1 <= Len(s)
        /\ \A j \in 1..Len(sub) : s[i + j - 1] = sub[j]}

\* sub in s
Contains(s, sub) == Occurrences(s, sub) # {}

\* s.index(sub), as a 1-based position; only used when sub in s
Index(s, sub) ==
    CHOOSE i \in Occurrences(s, sub) : \A j \in Occurrences(s, sub) : i <= j

\* s.startswith(p) at 1-based position i
StartsWithAt(s, i, p) ==
    /\ i + Len(p) - 1 <= Len(s)
    /\ \A j \in 1..Len(p) : s[i + j - 1] = p[j]

LowerAlphabet == <<"a", "b", "c", "d", "e", "f", "g", "h", "i", "j", "k", "l", "m",
                   "n", "o", "p", "q", "r", "s", "t", "u", "v", "w", "x", "y", "z">>

UpperAlphabet == <<"A", "B", "C", "D", "E", "F", "G", "H", "I", "J", "K", "L", "M",
                   "N", "O", "P", "Q", "R", "S", "T", "U", "V", "W", "X", "Y", "Z">>

LowerChar(c) ==
    IF \E k \in 1..Len(UpperAlphabet) : UpperAlphabet[k] = c
    THEN LowerAlphabet[CHOOSE k \in 1..Len(UpperAlphabet) : UpperAlphabet[k] = c]
    ELSE c

\* s.lower()
Lower(s) == [k \in 1..Len(s) |-> LowerChar(s[k])]

---------------------------------------------------------------------------
(* ensure_openai_base_url_has_v1 *)

V1 == <<"/", "v", "1">>

\* re.search(r'/v\d+$', url): url ends in "/v" and one or more digits
SearchVersionAtEnd(url) ==
    \E i \in 1..Len(url) :
        /\ i + 2 <= Len(url)
        /\ url[i] = "/"
        /\ url[i + 1] = "v"
        /\ \A j \in (i + 2)..Len(url) : url[j] \in Digits

\* the guards dropped: "/v1" is appended to every non-empty url
ensure_always_appends(url) ==
    LET u == Strip(url)
    IN IF u = <<>> THEN u ELSE RStrip(u, {"/"}) \o V1

\* the inner test `'/v1' not in url` dropped
ensure_without_contains_test(url) ==
    LET u == Strip(url)
    IN IF u = <<>> THEN u
       ELSE IF ~SearchVersionAtEnd(u) THEN RStrip(u, {"/"}) \o V1
       ELSE u

\* the separator forgotten: "v1" appended instead of "/v1"
ensure_without_separator(url) ==
    LET u == Strip(url)
    IN IF u = <<>> THEN u
       ELSE IF ~SearchVersionAtEnd(u) /\ ~Contains(u, V1)
            THEN RStrip(u, {"/"}) \o <<"v", "1">>
       ELSE u

ensure_openai_base_url_has_v1(url) ==
    LET u == Strip(url)
    IN IF u = <<>> THEN u
       ELSE IF ~SearchVersionAtEnd(u) /\ ~Contains(u, V1)
            THEN RStrip(u, {"/"}) \o V1
       ELSE u

---------------------------------------------------------------------------
(* OllamaEmbeddingAdapter *)

ApiEmbeddings == <<"/", "a", "p", "i", "/", "e", "m", "b", "e", "d", "d", "i", "n", "g", "s">>

Api == <<"/", "a", "p", "i">>

Embeddings == <<"/", "e", "m", "b", "e", "d", "d", "i", "n", "g", "s">>

\* __init__: the fields of a new instance
OllamaInit(model_name, base_url) ==
    [model_name |-> model_name, base_url |-> RStrip(base_url, {"/"})]

\* the truncation at "/v1" forgotten
endpoint_url_keeps_v1(base_url) ==
    LET url == RStrip(base_url, {"/"})
    IN IF ~Contains(url, ApiEmbeddings)
       THEN IF Contains(url, Api) THEN url \o Embeddings ELSE url \o ApiEmbeddings
       ELSE url

\* _embed_single, lines 99-106: the endpoint the request goes to
endpoint_url(base_url) ==
    LET url == RStrip(base_url, {"/"})
    IN IF ~Contains(url, ApiEmbeddings)
       THEN IF Contains(url, Api)
            THEN url \o Embeddings
            ELSE (IF Contains(url, V1)
                  THEN SubSeq(url, 1, Index(url, V1) - 1)
                  ELSE url) \o ApiEmbeddings
       ELSE url

\* the resolved endpoint written back to the instance
embed_single_request_stores_url(self, text) ==
    [self |-> [self EXCEPT !.base_url = endpoint_url(self.base_url)],
     url  |-> endpoint_url(self.base_url),
     json |-> [model |-> self.model_name, prompt |-> text]]

\* _embed_single up to requests.post: the instance (unchanged), the url
\* and the JSON body of the request
embed_single_request(self, text) ==
    [self |-> self,
     url  |-> endpoint_url(self.base_url),
     json |-> [model |-> self.model_name, prompt |-> text]]

\* What one request can come to:
\*   ok       a 2xx response whose JSON object has "embedding"
\*   nofield  a 2xx response whose JSON object has no "embedding"
\*   neterr   requests.post raises a RequestException (no connection, ...)
\*   httperr  raise_for_status raises HTTPError, a RequestException
\* The embeddings a response can carry; a float is modelled by an integer.
\* A response may carry an empty one: line 118 returns whatever it carries.
Vectors == {<<>>, <<1, 2>>}

Failures == {"neterr", "httperr"}

Outcomes ==
    {[kind |-> "ok", embedding |-> v] : v \in Vectors}
        \cup {[kind |-> k, embedding |-> <<>>] : k \in Failures \cup {"nofield"}}

\* `except` catching only connection errors: an HTTP error status escapes
embed_single_response_misses_http(o) ==
    CASE o.kind = "ok" ->
            [kind |-> "return", value |-> o.embedding, exc |-> "", logged |-> 0]
      [] o.kind = "neterr" ->
            [kind |-> "return", value |-> <<>>, exc |-> "", logged |-> 1]
      [] OTHER ->
            [kind |-> "raise", value |-> <<>>, exc |-> "Error", logged |-> 0]

\* _embed_single from the response on, lines 114-121: what it returns or
\* raises, and how many times it calls logging.error.  The ValueError of
\* line 117 is no RequestException, so the except clause does not catch it.
embed_single_response(o) ==
    CASE o.kind = "ok" ->
            [kind |-> "return", value |-> o.embedding, exc |-> "", logged |-> 0]
      [] o.kind \in Failures ->
            [kind |-> "return", value |-> <<>>, exc |-> "", logged |-> 1]
      [] o.kind = "nofield" ->
            [kind |-> "raise", value |-> <<>>, exc |-> "ValueError", logged |-> 0]

Inst == {"a1", "a2"}

Models == {"m1", "m2"}

Texts == {"t1", "t2"}

\* the longest list of texts passed to embed_documents
MaxTexts == 2

TextLists == UNION {[1..n -> Texts] : n \in 0..MaxTexts}

\* base urls the instances are constructed with: "h/" and "h/v1"
SomeBaseUrls == {<<"h", "/">>, <<"h">> \o V1}

NoCall == [inst |-> "", op |-> "", texts |-> <<>>, embeddings |-> <<>>]

NoResult == [kind |-> "none", value |-> <<>>, exc |-> ""]

Quiescent == pc \in {"idle", "returned", "raised"}

PostEvent(rq) == [ev |-> "post", url |-> rq.url, json |-> rq.json]

ResponseEvent(o) == [ev |-> "response", outcome |-> o]

WithInstance(f, i, self) ==
    [j \in DOMAIN f \cup {i} |-> IF j = i THEN self ELSE f[j]]

InitOllama ==
    /\ adapters = <<>>
    /\ ctor_args = <<>>
    /\ ctor_fields = <<>>
    /\ pc = "idle"
    /\ cur = NoCall
    /\ net = <<>>
    /\ result = NoResult
    /\ errlog = 0

\* OllamaEmbeddingAdapter(model_name, base_url)
Construct(i, model_name, base_url) ==
    /\ Quiescent
    /\ i \notin DOMAIN adapters
    /\ adapters' = WithInstance(adapters, i, OllamaInit(model_name, base_url))
    /\ ctor_args' = WithInstance(ctor_args, i,
                        [model_name |-> model_name, base_url |-> base_url])
    /\ ctor_fields' = WithInstance(ctor_fields, i, OllamaInit(model_name, base_url))
    /\ UNCHANGED <<pc, cur, net, result, errlog>>

\* embed_documents(texts) up to its first request, or to its return when
\* texts is empty
CallEmbedDocuments(i, texts) ==
    /\ Quiescent
    /\ i \in DOMAIN adapters
    /\ errlog' = 0
    /\ cur' = [inst |-> i, op |-> "embed_documents", texts |-> texts,
               embeddings |-> <<>>]
    /\ IF texts = <<>>
       THEN /\ pc' = "returned"
            /\ result' = [kind |-> "return", value |-> <<>>, exc |-> ""]
            /\ net' = <<>>
            /\ UNCHANGED adapters
       ELSE LET rq == embed_single_request(adapters[i], texts[1])
            IN /\ pc' = "await"
               /\ result' = NoResult
               /\ net' = <<PostEvent(rq)>>
               /\ adapters' = [adapters EXCEPT ![i] = rq.self]
    /\ UNCHANGED <<ctor_args, ctor_fields>>

\* embed_query(query) up to its request
CallEmbedQuery(i, query) ==
    /\ Quiescent
    /\ i \in DOMAIN adapters
    /\ errlog' = 0
    /\ cur' = [inst |-> i, op |-> "embed_query", texts |-> <<query>>,
               embeddings |-> <<>>]
    /\ LET rq == embed_single_request(adapters[i], query)
       IN /\ pc' = "await"
          /\ result' = NoResult
          /\ net' = <<PostEvent(rq)>>
          /\ adapters' = [adapters EXCEPT ![i] = rq.self]
    /\ UNCHANGED <<ctor_args, ctor_fields>>

\* The pending request comes to outcome o: the rest of _embed_single, and
\* of the call that made it up to its next request, its return or its raise
Respond(o) ==
    /\ pc = "await"
    /\ LET r    == embed_single_response(o)
           got  == Append(cur.embeddings, r.value)
           seen == Append(net, ResponseEvent(o))
       IN /\ errlog' = errlog + r.logged
          /\ IF r.kind = "raise"
             THEN /\ pc' = "raised"
                  /\ result' = [kind |-> "raise", value |-> <<>>, exc |-> r.exc]
                  /\ net' = seen
                  /\ UNCHANGED <<cur, adapters>>
             ELSE IF cur.op = "embed_query"
             THEN /\ pc' = "returned"
                  /\ result' = [kind |-> "return", value |-> r.value, exc |-> ""]
                  /\ net' = seen
                  /\ cur' = [cur EXCEPT !.embeddings = got]
                  /\ UNCHANGED adapters
             ELSE IF Len(got) = Len(cur.texts)
             THEN /\ pc' = "returned"
                  /\ result' = [kind |-> "return", value |-> got, exc |-> ""]
                  /\ net' = seen
                  /\ cur' = [cur EXCEPT !.embeddings = got]
                  /\ UNCHANGED adapters
             ELSE LET rq == embed_single_request(adapters[cur.inst],
                                                 cur.texts[Len(got) + 1])
                  IN /\ pc' = "await"
                     /\ result' = NoResult
                     /\ net' = Append(seen, PostEvent(rq))
                     /\ cur' = [cur EXCEPT !.embeddings = got]
                     /\ adapters' = [adapters EXCEPT ![cur.inst] = rq.self]
    /\ UNCHANGED <<ctor_args, ctor_fields>>

NormalizerIdle ==
    /\ npc = "off"
    /\ url_in = <<>>
    /\ url_out = <<>>
    /\ url_again = <<>>

FactoryIdle ==
    /\ fpc = "off"
    /\ fargs = <<>>
    /\ fresult = <<>>
    /\ fclients = <<>>

Init == NormalizerIdle /\ FactoryIdle /\ InitOllama

Next ==
    \/ \E i \in Inst \ DOMAIN adapters, m \in Models, u \in SomeBaseUrls :
          Construct(i, m, u) /\ UNCHANGED <<nvars, fvars>>
    \/ \E i \in Inst, texts \in TextLists :
          CallEmbedDocuments(i, texts) /\ UNCHANGED <<nvars, fvars>>
    \/ \E i \in Inst, q \in Texts :
          CallEmbedQuery(i, q) /\ UNCHANGED <<nvars, fvars>>
    \/ \E o \in Outcomes :
          Respond(o) /\ UNCHANGED <<nvars, fvars>>

Spec == Init /\ [][Next]_vars

---------------------------------------------------------------------------
(* Endpoint resolution over many base urls: one instance, one query *)

UrlParts ==
    {<<"h">>, <<"/">>, <<"v">>, <<"1">>, V1, Api, Embeddings, <<"/", "a", "p">>,
     <<"i">>}

\* the most parts a base url is put together from
MaxUrlParts == 3

RECURSIVE PartConcats(_)
PartConcats(n) ==
    IF n = 0 THEN {<<>>}
    ELSE LET shorter == PartConcats(n - 1)
         IN shorter \cup {s \o p : s \in shorter, p \in UrlParts}

ManyBaseUrls == PartConcats(MaxUrlParts)

NextEndpoint ==
    \/ \E i \in {"a1"} \ DOMAIN adapters, u \in ManyBaseUrls :
          Construct(i, "m1", u) /\ UNCHANGED <<nvars, fvars>>
    \/ CallEmbedQuery("a1", "t1") /\ UNCHANGED <<nvars, fvars>>
    \/ \E o \in Outcomes :
          Respond(o) /\ UNCHANGED <<nvars, fvars>>

SpecEndpoint == Init /\ [][NextEndpoint]_vars

---------------------------------------------------------------------------
(* ensure_openai_base_url_has_v1 applied once, then to its own result *)

UrlChars == {"h", "/", "v", "1", "2", " "}

\* the longest url given to the normaliser
MaxUrlLen == 5

UrlInputs == UNION {[1..n -> UrlChars] : n \in 0..MaxUrlLen}

OllamaIdle ==
    /\ adapters = <<>>
    /\ ctor_args = <<>>
    /\ ctor_fields = <<>>
    /\ pc = "off"
    /\ cur = NoCall
    /\ net = <<>>
    /\ result = NoResult
    /\ errlog = 0

InitNormalize ==
    /\ npc = "input"
    /\ url_in \in UrlInputs
    /\ url_out = <<>>
    /\ url_again = <<>>
    /\ FactoryIdle
    /\ OllamaIdle

Normalize ==
    /\ npc = "input"
    /\ url_out' = ensure_openai_base_url_has_v1(url_in)
    /\ npc' = "once"
    /\ UNCHANGED <<url_in, url_again, fvars, ovars>>

NormalizeAgain ==
    /\ npc = "once"
    /\ url_again' = ensure_openai_base_url_has_v1(url_out)
    /\ npc' = "twice"
    /\ UNCHANGED <<url_in, url_out, fvars, ovars>>

NextNormalize == Normalize \/ NormalizeAgain

SpecNormalize == InitNormalize /\ [][NextNormalize]_vars

---------------------------------------------------------------------------
(* Properties of ensure_openai_base_url_has_v1 *)

\* s ends in the path segment /v<N>, N one or more digits
EndsInVersionSegment(s) ==
    \E n \in 1..Len(s) :
        /\ n + 2 <= Len(s)
        /\ \A j \in (Len(s) - n + 1)..Len(s) : s[j] \in Digits
        /\ s[Len(s) - n] = "v"
        /\ s[Len(s) - n - 1] = "/"

\* s without the whitespace around it
Trimmed(s) == Strip(s)

EndsWith(s, t) ==
    /\ Len(t) <= Len(s)
    /\ SubSeq(s, Len(s) - Len(t) + 1, Len(s)) = t

\* C3 as claimed: for every non-empty base url the result of
\* ensure_openai_base_url_has_v1 ends in a version segment /v<N>.
C3_AlwaysEndsInVersion ==
    (npc # "input" /\ url_in # <<>>) => EndsInVersionSegment(url_out)

\* C3 as amended: for every base url that has a character other than
\* whitespace and, the whitespace around it aside, either already ends in
\* /v<N> or contains no "/v1", the result ends in /v<N>: it is the url
\* itself in the first case and ends in /v1 in the second.
C3_EndsInVersionUnlessV1Inside ==
    (/\ npc # "input"
     /\ \E k \in 1..Len(url_in) : url_in[k] \notin Whitespace
     /\ EndsInVersionSegment(Trimmed(url_in)) \/ ~Contains(url_in, V1))
    => /\ EndsInVersionSegment(url_out)
       /\ EndsInVersionSegment(Trimmed(url_in)) => url_out = Trimmed(url_in)
       /\ ~EndsInVersionSegment(Trimmed(url_in)) => EndsWith(url_out, V1)

\* C3's case: a url with no version segment and no "/v1" was normalised
C3_Witness ==
    /\ npc = "once"
    /\ \E k \in 1..Len(url_in) : url_in[k] \notin Whitespace
    /\ ~EndsInVersionSegment(Trimmed(url_in))
    /\ ~Contains(url_in, V1)
    /\ Len(url_out) > Len(Trimmed(url_in))

\* C8: for every url that already contains "/v1" the result holds no more
\* occurrences of "/v1" than the input: no "/v1" is appended.
C8_NoDuplicateV1 ==
    (npc # "input" /\ Contains(url_in, V1))
    => Cardinality(Occurrences(url_out, V1)) <= Cardinality(Occurrences(url_in, V1))

\* C8's case: a url with "/v1" inside and no version segment at its end
C8_Witness ==
    /\ npc = "once"
    /\ Contains(url_in, V1)
    /\ ~EndsInVersionSegment(Trimmed(url_in))

\* C10: normalising the result of a normalisation changes nothing.
C10_Idempotent == npc = "twice" => url_again = url_out

\* C10's case: the first normalisation appended "/v1", the second has run
C10_Witness ==
    /\ npc = "twice"
    /\ Len(url_out) > Len(url_in)
    /\ EndsWith(url_out, V1)

---------------------------------------------------------------------------
(* Properties of the Ollama adapter *)

Responses == SelectSeq(net, LAMBDA e : e.ev = "response")

Posts == SelectSeq(net, LAMBDA e : e.ev = "post")

\* every request of the running call succeeded with an embedding or failed
\* with a network error or an HTTP error status
OnlyEmbeddingsAndFailures ==
    \A k \in 1..Len(Responses) : Responses[k].outcome.kind \in {"ok"} \cup Failures

DocumentsReturned == cur.op = "embed_documents" /\ pc = "returned"

\* C1 as claimed: under successes, network errors and HTTP error statuses
\* embed_documents never raises and returns one vector per text, in order,
\* entry i empty exactly when request i failed and the returned embedding
\* otherwise.
C1_EmptyExactlyWhenFailed ==
    (cur.op = "embed_documents" /\ OnlyEmbeddingsAndFailures)
    => /\ pc # "raised"
       /\ pc = "returned" =>
            /\ Len(result.value) = Len(cur.texts)
            /\ \A k \in 1..Len(cur.texts) :
                 /\ result.value[k] = <<>> <=> Responses[k].outcome.kind \in Failures
                 /\ Responses[k].outcome.kind = "ok" =>
                        result.value[k] = Responses[k].outcome.embedding

\* C1 as amended: under successes, network errors and HTTP error statuses
\* embed_documents never raises and returns one vector per text, in order,
\* entry i empty whenever request i failed and the returned embedding
\* otherwise (which is empty when the server returned an empty embedding).
C1_EmptyWhenFailed ==
    (cur.op = "embed_documents" /\ OnlyEmbeddingsAndFailures)
    => /\ pc # "raised"
       /\ pc = "returned" =>
            /\ Len(result.value) = Len(cur.texts)
            /\ \A k \in 1..Len(cur.texts) :
                 /\ Responses[k].outcome.kind \in Failures => result.value[k] = <<>>
                 /\ Responses[k].outcome.kind = "ok" =>
                        result.value[k] = Responses[k].outcome.embedding

\* C1's case: a batch of two returned, one request failed by an HTTP error
\* status and the other answered with an embedding
C1_Witness ==
    /\ DocumentsReturned
    /\ Len(cur.texts) = 2
    /\ Responses[1].outcome.kind = "httperr"
    /\ Responses[2].outcome.kind = "ok"
    /\ Responses[2].outcome.embedding # <<>>
    /\ result.value = <<<<>>, Responses[2].outcome.embedding>>

\* C2: a response without the "embedding" field is logged and answered
\* with the empty vector; no error reaches the caller.
C2_MissingFieldDegrades ==
    (/\ net # <<>>
     /\ net[Len(net)].ev = "response"
     /\ net[Len(net)].outcome.kind = "nofield")
    => /\ pc # "raised"
       /\ errlog >= 1
       /\ cur.embeddings # <<>>
       /\ cur.embeddings[Len(cur.embeddings)] = <<>>

\* b with its trailing slashes stripped is s
StrippedOfSlashes(b, s) ==
    \E n \in 0..Len(b) :
        /\ s = SubSeq(b, 1, n)
        /\ n = 0 \/ b[n] # "/"
        /\ \A j \in (n + 1)..Len(b) : b[j] = "/"

\* e is what the four steps of the endpoint resolution make of base url b
FourSteps(b, e) ==
    \E n \in 0..Len(b) :
        LET s == SubSeq(b, 1, n)
        IN /\ StrippedOfSlashes(b, s)
           /\ \/ Contains(s, ApiEmbeddings) /\ e = s
              \/ /\ ~Contains(s, ApiEmbeddings)
                 /\ Contains(s, Api)
                 /\ e = s \o Embeddings
              \/ /\ ~Contains(s, Api)
                 /\ \E k \in Occurrences(s, V1) :
                       /\ \A j \in Occurrences(s, V1) : k <= j
                       /\ e = SubSeq(s, 1, k - 1) \o ApiEmbeddings
              \/ /\ ~Contains(s, Api)
                 /\ ~Contains(s, V1)
                 /\ e = s \o ApiEmbeddings

\* C4: every request goes to the endpoint the four steps make of the base
\* url the instance was constructed with.
C4_EndpointIsFourSteps ==
    \A k \in 1..Len(net) :
        net[k].ev = "post" => FourSteps(ctor_args[cur.inst].base_url, net[k].url)

\* C4's case: a request was posted for a base url with a trailing slash and
\* a "/v1", which was cut off
C4_Witness ==
    /\ net # <<>>
    /\ net[1].ev = "post"
    /\ LET b == ctor_args[cur.inst].base_url
       IN /\ b # <<>>
          /\ b[Len(b)] = "/"
          /\ Contains(b, V1)
          /\ ~Contains(b, Api)
          /\ ~Contains(net[1].url, V1)

\* C7: embed_documents posts one request per text, in input order, each
\* after the one before it has completed, however the requests end.
C7_OneRequestPerText ==
    cur.op = "embed_documents"
    => /\ \A k \in 1..Len(net) :
            net[k].ev = (IF k % 2 = 1 THEN "post" ELSE "response")
       /\ \A k \in 1..Len(Posts) : Posts[k].json.prompt = cur.texts[k]
       /\ pc \in {"returned", "raised"} => Len(Posts) = Len(cur.texts)

\* C9: whatever calls were made, every instance's model_name and base_url
\* are those its construction set.
C9_FieldsAsConstructed ==
    \A i \in DOMAIN adapters : adapters[i] = ctor_fields[i]

\* C9's case: two instances exist, and a call that made requests on one of
\* them has ended, by a return or by a raise
C9_Witness ==
    /\ DOMAIN adapters = Inst
    /\ pc \in {"returned", "raised"}
    /\ Len(Posts) >= 2
    /\ \E i \in Inst : adapters[i] # adapters[cur.inst]

---------------------------------------------------------------------------
(* AzureOpenAIEmbeddingAdapter and create_embedding_adapter *)

Https == <<"h", "t", "t", "p", "s", ":", "/", "/">>

OpenaiDeployments ==
    <<"/", "o", "p", "e", "n", "a", "i", "/", "d", "e", "p", "l", "o", "y", "m", "e",
      "n", "t", "s", "/">>

EmbeddingsApiVersion ==
    <<"/", "e", "m", "b", "e", "d", "d", "i", "n", "g", "s", "?", "a", "p", "i", "-",
      "v", "e", "r", "s", "i", "o", "n", "=">>

\* s[from..to] is one or more characters a regex `.` matches (no newline)
DotPlus(s, from, to) ==
    /\ from <= to
    /\ \A k \in from..to : s[k] # "\n"

NoMatch == [matched |-> FALSE, g1 |-> <<>>, g2 |-> <<>>, g3 |-> <<>>]

\* The match of
\*   https://(.+?)/openai/deployments/(.+?)/embeddings\?api-version=(.+)
\* starting at position p of s: the lazy groups end at the first place that
\* lets the rest match, the greedy one runs to the end of the line.
AzurePatternAt(s, p) ==
    LET h0 == p + Len(Https)
        DeploymentEnds(i) ==
            {j \in 1..Len(s) :
                /\ DotPlus(s, i + 1 + Len(OpenaiDeployments), j)
                /\ StartsWithAt(s, j + 1, EmbeddingsApiVersion)
                /\ j + 1 + Len(EmbeddingsApiVersion) <= Len(s)
                /\ s[j + 1 + Len(EmbeddingsApiVersion)] # "\n"}
        HostEnds ==
            {i \in 1..Len(s) :
                /\ DotPlus(s, h0, i)
                /\ StartsWithAt(s, i + 1, OpenaiDeployments)
                /\ DeploymentEnds(i) # {}}
    IN IF StartsWithAt(s, p, Https) /\ HostEnds # {}
       THEN LET i  == CHOOSE x \in HostEnds : \A y \in HostEnds : x <= y
                j  == CHOOSE x \in DeploymentEnds(i) :
                          \A y \in DeploymentEnds(i) : x <= y
                v0 == j + 1 + Len(EmbeddingsApiVersion)
                v1 == CHOOSE x \in v0..Len(s) :
                          /\ DotPlus(s, v0, x)
                          /\ x = Len(s) \/ s[x + 1] = "\n"
            IN [matched |-> TRUE,
                g1 |-> SubSeq(s, h0, i),
                g2 |-> SubSeq(s, i + 1 + Len(OpenaiDeployments), j),
                g3 |-> SubSeq(s, v0, v1)]
       ELSE NoMatch

\* re.search in place of re.match: the pattern may start anywhere
azure_re_search(base_url) ==
    LET starts == {p \in 1..Len(base_url) : AzurePatternAt(base_url, p).matched}
    IN IF starts = {} THEN NoMatch
       ELSE AzurePatternAt(base_url,
                           CHOOSE p \in starts : \A q \in starts : p <= q)

\* re.match(pattern, base_url): the pattern must start the string
azure_re_match(base_url) == AzurePatternAt(base_url, 1)

\* What a constructor or the factory comes to: an adapter of a class with
\* its fields, or an exception raised in `origin`; and the library clients
\* whose construction was started, in order, each with how it ended.
Adapter(class, fields, clients) ==
    [kind |-> "adapter", class |-> class, fields |-> fields, exc |-> "",
     msg |-> <<>>, origin |-> "", clients |-> clients]

Raised(exc, msg, origin, clients) ==
    [kind |-> "raise", class |-> "", fields |-> <<>>, exc |-> exc,
     msg |-> msg, origin |-> origin, clients |-> clients]

\* A library client's constructor returns (lib = "ok") or raises
LibOutcomes == {"ok", "raise"}

Client(name, args, lib) == [client |-> name, args |-> args, outcome |-> lib]

WithClient(class, fields, client) ==
    IF client.outcome = "ok"
    THEN Adapter(class, fields, <<client>>)
    ELSE Raised("LibraryError", <<>>, client.client, <<client>>)

\* OpenAIEmbeddingAdapter.__init__
OpenAIInit(api_key, base_url, model_name, lib) ==
    WithClient("OpenAIEmbeddingAdapter", <<>>,
               Client("OpenAIEmbeddings",
                      [openai_api_key |-> api_key,
                       openai_api_base |-> ensure_openai_base_url_has_v1(base_url),
                       model |-> model_name],
                      lib))

InvalidAzureFormat ==
    <<"I", "n", "v", "a", "l", "i", "d", " ", "A", "z", "u", "r", "e", " ", "O", "p",
      "e", "n", "A", "I", " ", "b", "a", "s", "e", "_", "u", "r", "l", " ", "f", "o",
      "r", "m", "a", "t">>

\* AzureOpenAIEmbeddingAdapter.__init__
AzureInit(api_key, base_url, model_name, lib) ==
    LET match == azure_re_match(base_url)
        fields == [azure_endpoint |-> Https \o match.g1,
                   azure_deployment |-> match.g2,
                   api_version |-> match.g3]
    IN IF match.matched
       THEN WithClient("AzureOpenAIEmbeddingAdapter", fields,
                       Client("AzureOpenAIEmbeddings",
                              [azure_endpoint |-> fields.azure_endpoint,
                               azure_deployment |-> fields.azure_deployment,
                               openai_api_key |-> api_key,
                               api_version |-> fields.api_version],
                              lib))
       ELSE Raised("ValueError", InvalidAzureFormat,
                   "AzureOpenAIEmbeddingAdapter", <<>>)

\* SentenceTransformersAdapter.__init__
SentenceTransformersInit(model_name, lib) ==
    WithClient("SentenceTransformersAdapter", <<>>,
               Client("SentenceTransformer", [model_name |-> model_name], lib))

FmtOpenai == <<"o", "p", "e", "n", "a", "i">>

FmtAzureOpenai == <<"a", "z", "u", "r", "e", " ", "o", "p", "e", "n", "a", "i">>

FmtOllama == <<"o", "l", "l", "a", "m", "a">>

FmtSentenceTransformers ==
    <<"s", "e", "n", "t", "e", "n", "c", "e", "-", "t", "r", "a", "n", "s", "f", "o",
      "r", "m", "e", "r", "s">>

UnknownFormat ==
    <<"U", "n", "k", "n", "o", "w", "n", " ", "e", "m", "b", "e", "d", "d", "i", "n",
      "g", " ", "i", "n", "t", "e", "r", "f", "a", "c", "e", "_", "f", "o", "r", "m",
      "a", "t", ":", " ">>

\* the dispatch on the format after strip().lower()
Dispatch(fmt, interface_format, api_key, base_url, model_name, lib) ==
    IF fmt = FmtOpenai
    THEN OpenAIInit(api_key, base_url, model_name, lib)
    ELSE IF fmt = FmtAzureOpenai
    THEN AzureInit(api_key, base_url, model_name, lib)
    ELSE IF fmt = FmtOllama
    THEN Adapter("OllamaEmbeddingAdapter", OllamaInit(model_name, base_url), <<>>)
    ELSE IF fmt = FmtSentenceTransformers
    THEN SentenceTransformersInit(model_name, lib)
    ELSE Raised("ValueError", UnknownFormat \o interface_format,
                "create_embedding_adapter", <<>>)

\* lower() forgotten: the names are compared as written
create_embedding_adapter_case_sensitive(interface_format, api_key, base_url, model_name, lib) ==
    Dispatch(Strip(interface_format),
             interface_format, api_key, base_url, model_name, lib)

create_embedding_adapter(interface_format, api_key, base_url, model_name, lib) ==
    Dispatch(Lower(Strip(interface_format)),
             interface_format, api_key, base_url, model_name, lib)

---------------------------------------------------------------------------
(* create_embedding_adapter called once on each of many configurations *)

UpperChar(c) ==
    IF \E k \in 1..Len(LowerAlphabet) : LowerAlphabet[k] = c
    THEN UpperAlphabet[CHOOSE k \in 1..Len(LowerAlphabet) : LowerAlphabet[k] = c]
    ELSE c

Upper(s) == [k \in 1..Len(s) |-> UpperChar(s[k])]

Capitalized(s) == [k \in 1..Len(s) |-> IF k = 1 THEN UpperChar(s[k]) ELSE s[k]]

Recognized == {FmtOpenai, FmtAzureOpenai, FmtOllama, FmtSentenceTransformers}

\* names that are none of the four: "", "openai2", "azure", "azureopenai",
\* "azure  openai", "open ai", "sentence_transformers", "olama"
Unrecognized ==
    {<<>>,
     FmtOpenai \o <<"2">>,
     <<"a", "z", "u", "r", "e">>,
     <<"a", "z", "u", "r", "e">> \o FmtOpenai,
     <<"a", "z", "u", "r", "e", " ", " ">> \o FmtOpenai,
     <<"o", "p", "e", "n", " ", "a", "i">>,
     <<"s", "e", "n", "t", "e", "n", "c", "e", "_", "t", "r", "a", "n", "s", "f", "o",
       "r", "m", "e", "r", "s">>,
     <<"o", "l", "a", "m", "a">>}

\* the most whitespace put on either side of a format name
MaxPad == 1

Pads == UNION {[1..n -> Whitespace] : n \in 0..MaxPad}

Formats ==
    {l \o c \o r :
        l \in Pads, r \in Pads,
        c \in UNION {{n, Upper(n), Capitalized(n)} : n \in Recognized \cup Unrecognized}}

AzureFormats == {FmtAzureOpenai, Upper(FmtAzureOpenai), <<" ">> \o FmtAzureOpenai}

\* base urls of the Azure form and near it, put together from a head, a
\* host, the two fixed parts, a deployment and a version, each right or not
AzureUrls ==
    {head \o host \o mid \o dep \o tail \o ver :
        head \in {Https, <<"h", "t", "t", "p", ":", "/", "/">>, <<" ">> \o Https},
        host \in {<<>>, <<"h">>, <<"h", "/", "g">>, <<"h", "\n">>},
        mid  \in {OpenaiDeployments, <<"/">>,
                  OpenaiDeployments \o <<"d">> \o OpenaiDeployments},
        dep  \in {<<>>, <<"d">>, <<"\n">>},
        tail \in {EmbeddingsApiVersion, Embeddings,
                  EmbeddingsApiVersion \o <<"1">> \o EmbeddingsApiVersion},
        ver  \in {<<>>, <<"1">>, <<"1", "\n", "x">>, <<"\n">>}}

\* "", "http://h", "http://h/v1/" and
\* "https://h/openai/deployments/d/embeddings?api-version=1"
PlainUrls ==
    {<<>>,
     <<"h", "t", "t", "p", ":", "/", "/", "h">>,
     <<"h", "t", "t", "p", ":", "/", "/", "h">> \o V1 \o <<"/">>,
     Https \o <<"h">> \o OpenaiDeployments \o <<"d">> \o EmbeddingsApiVersion
        \o <<"1">>}

FactoryArgs ==
    {[interface_format |-> f, api_key |-> "key", base_url |-> u, model_name |-> "m1"] :
        f \in Formats, u \in PlainUrls}
    \cup
    {[interface_format |-> f, api_key |-> "key", base_url |-> u, model_name |-> "m1"] :
        f \in AzureFormats, u \in AzureUrls}

NoOutcome == Raised("", <<>>, "", <<>>)

InitFactory ==
    /\ fpc = "args"
    /\ fargs \in FactoryArgs
    /\ fresult = NoOutcome
    /\ fclients = <<>>
    /\ NormalizerIdle
    /\ OllamaIdle

\* create_embedding_adapter(...) on the arguments, the library's
\* constructor ending as lib
Create(lib) ==
    /\ fpc = "args"
    /\ LET r == create_embedding_adapter(fargs.interface_format, fargs.api_key,
                                         fargs.base_url, fargs.model_name, lib)
       IN /\ fresult' = r
          /\ fclients' = r.clients
    /\ fpc' = "done"
    /\ UNCHANGED <<fargs, nvars, ovars>>

NextFactory == \E lib \in LibOutcomes : Create(lib)

SpecFactory == InitFactory /\ [][NextFactory]_vars

---------------------------------------------------------------------------
(* Properties of the factory and of the Azure adapter *)

ClassOf(fmt) ==
    CASE fmt = FmtOpenai -> "OpenAIEmbeddingAdapter"
      [] fmt = FmtAzureOpenai -> "AzureOpenAIEmbeddingAdapter"
      [] fmt = FmtOllama -> "OllamaEmbeddingAdapter"
      [] fmt = FmtSentenceTransformers -> "SentenceTransformersAdapter"
      [] OTHER -> ""

\* a and b are the same but for the case of their letters
SameIgnoringCase(a, b) ==
    /\ Len(a) = Len(b)
    /\ \A k \in 1..Len(a) : LowerChar(a[k]) = LowerChar(b[k])

UnknownFormatRaised ==
    /\ fresult.kind = "raise"
    /\ fresult.exc = "ValueError"
    /\ fresult.origin = "create_embedding_adapter"
    /\ Contains(fresult.msg, fargs.interface_format)
    /\ fclients = <<>>

\* no library client's constructor raised
LibraryClientsBuilt == \A k \in 1..Len(fclients) : fclients[k].outcome = "ok"

\* C5 as claimed: each of the four names, compared case-insensitively,
\* gives an adapter of its kind; every other format string raises
\* ValueError naming the value, and no adapter is constructed.  (Read with
\* the provider libraries' own constructors succeeding.)
C5_FactoryByNameIgnoringCase ==
    (fpc = "done" /\ LibraryClientsBuilt) =>
        IF \E n \in Recognized : SameIgnoringCase(fargs.interface_format, n)
        THEN \E n \in Recognized :
                /\ SameIgnoringCase(fargs.interface_format, n)
                /\ fresult.kind = "adapter"
                /\ fresult.class = ClassOf(n)
        ELSE UnknownFormatRaised

\* C5 as amended: each of the four names, compared case-insensitively
\* after the whitespace around the format is stripped, selects the adapter
\* of its kind, which is returned unless its constructor raises (the Azure
\* adapter on a base_url that is not of its form, or the provider library's
\* client constructor); every other format string raises ValueError naming
\* the value, and no adapter is constructed.
C5_FactoryByTrimmedNameIgnoringCase ==
    fpc = "done" =>
        IF \E n \in Recognized : SameIgnoringCase(Trimmed(fargs.interface_format), n)
        THEN \E n \in Recognized :
                /\ SameIgnoringCase(Trimmed(fargs.interface_format), n)
                /\ \/ fresult.kind = "adapter" /\ fresult.class = ClassOf(n)
                   \/ /\ fresult.kind = "raise"
                      /\ fresult.origin = "AzureOpenAIEmbeddingAdapter"
                      /\ n = FmtAzureOpenai
                      /\ ~azure_re_match(fargs.base_url).matched
                   \/ /\ fresult.kind = "raise"
                      /\ fclients # <<>>
                      /\ fclients[Len(fclients)].outcome = "raise"
                      /\ fresult.origin = fclients[Len(fclients)].client
        ELSE UnknownFormatRaised

\* C5's case: a name written in capitals with whitespace around it gave
\* the adapter of its kind
C5_Witness ==
    /\ fpc = "done"
    /\ fargs.interface_format =
          <<" ">> \o Upper(FmtSentenceTransformers) \o <<"\n">>
    /\ fresult.kind = "adapter"
    /\ fresult.class = "SentenceTransformersAdapter"

\* u is https://<host>/openai/deployments/<deployment>/embeddings?api-version=<version>
\* with a host, a deployment and a version of one character or more
HasAzureForm(u) ==
    \E i \in 1..Len(u) : \E j \in 1..Len(u) :
        /\ Len(Https) < i
        /\ i + Len(OpenaiDeployments) < j
        /\ j + Len(EmbeddingsApiVersion) < Len(u)
        /\ SubSeq(u, 1, Len(Https)) = Https
        /\ SubSeq(u, i + 1, i + Len(OpenaiDeployments)) = OpenaiDeployments
        /\ SubSeq(u, j + 1, j + Len(EmbeddingsApiVersion)) = EmbeddingsApiVersion

AzureSelected == SameIgnoringCase(Trimmed(fargs.interface_format), FmtAzureOpenai)

\* C6: the Azure adapter is constructed only from a base_url of the Azure
\* form; any other base_url raises ValueError before the Azure client is
\* constructed.
C6_AzureFailsFast ==
    (fpc = "done" /\ AzureSelected)
    => /\ fresult.kind = "adapter" => HasAzureForm(fargs.base_url)
       /\ ~HasAzureForm(fargs.base_url) =>
            /\ fresult.kind = "raise"
            /\ fresult.exc = "ValueError"
            /\ fresult.origin = "AzureOpenAIEmbeddingAdapter"
            /\ fclients = <<>>

\* C6's case: an https url with a host and the two fixed parts but no
\* version was refused
C6_Witness ==
    /\ fpc = "done"
    /\ AzureSelected
    /\ fargs.base_url = Https \o <<"h">> \o OpenaiDeployments \o <<"d">>
                            \o EmbeddingsApiVersion
    /\ fresult.exc = "ValueError"
    /\ fclients = <<>>

=============================================================================
